---------------------------- MODULE Spec2Model ----------------------------
(***************************************************************************)
(* A model of the jobly backend: the partial-update statement compiler     *)
(* (helpers/sql.js), the Job and Company models (models/job.js,            *)
(* models/company.js) and the statements they hand to db.query.            *)
(*                                                                         *)
(* JavaScript values are tagged tuples, so that values of different types  *)
(* can be told apart: <<"undefined">>, <<"null">>, <<"NaN">>,              *)
(* <<"number", n>>, <<"boolean", b>>, <<"string", s>> with s a sequence of *)
(* one-character strings.  Identifiers (object keys, column names) are     *)
(* plain strings.  A JavaScript object is the sequence of its <<key,       *)
(* value>> pairs in the order the properties were inserted.  A statement   *)
(* text is the sequence of its tokens.                                     *)
(***************************************************************************)
EXTENDS Integers, Sequences, FiniteSets, TLC

VARIABLES
    jobs,        \* the rows of table jobs
    nextJobId,   \* the next value of the serial column jobs.id
    companies,   \* the rows of table companies
    call,        \* the operation called last, with its arguments
    queries,     \* the db.query(text, args) calls that operation made, in order
    result,      \* what that operation returned or threw
    invoked,     \* the methods of the models that a route handler called
    pending      \* the calls of Company.create that run at the same time

vars == <<jobs, nextJobId, companies, call, queries, result, invoked, pending>>

-----------------------------------------------------------------------------
(* Bounds of the model *)

\* the largest number of properties of an object handed to sqlForPartialUpdate
MaxFields == 2

\* the largest number of jobs ever created, where rows are updated and removed
MaxJobs == 2

\* the largest number of rows of a table that is listed
MaxRows == 3

\* the number of calls of Company.create that can run at the same time
MaxCreates == 2

-----------------------------------------------------------------------------
(* JavaScript values *)

Undefined == <<"undefined">>
Null == <<"null">>
Num(n) == <<"number", n>>
Bool(b) == <<"boolean", b>>
Str(s) == <<"string", s>>

Return(v) == [kind |-> "return", value |-> v]
Throw(e, m) == [kind |-> "throw", error |-> e, message |-> m]
NoResult == [kind |-> "none"]

\* The sequences over S of length at most n.
SeqUpTo(S, n) == UNION {[1..k -> S] : k \in 0..n}

\* The elements of sequence s.
Range(s) == {s[i] : i \in DOMAIN s}

\* The concatenation of the sequences in ss, with sep between two of them
\* (Array.prototype.join on arrays of token sequences).
RECURSIVE Join(_, _)
Join(ss, sep) ==
    IF Len(ss) = 0 THEN <<>>
    ELSE IF Len(ss) = 1 THEN ss[1]
    ELSE ss[1] \o <<sep>> \o Join(Tail(ss), sep)

-----------------------------------------------------------------------------
(* JavaScript objects: property order *)

\* The keys that are canonical array indices, in ascending numeric order.
ArrayIndexKeys == <<"0", "1">>

IsArrayIndex(k) == k \in Range(ArrayIndexKeys)

\* An object: pairs <<key, value>> with distinct keys.
IsObject(o) == \A i, j \in DOMAIN o : o[i][1] = o[j][1] => i = j

HasKey(o, k) == \E i \in DOMAIN o : o[i][1] = k

GetKey(o, k) == o[CHOOSE i \in DOMAIN o : o[i][1] = k][2]

\* OrdinaryOwnPropertyKeys: the integer-like keys in ascending numeric order,
\* then the other string keys in the order they were inserted.
OwnProperties(o) ==
    SelectSeq([i \in DOMAIN ArrayIndexKeys |->
                  IF HasKey(o, ArrayIndexKeys[i])
                  THEN <<ArrayIndexKeys[i], GetKey(o, ArrayIndexKeys[i])>>
                  ELSE <<>>],
              LAMBDA p : p # <<>>)
    \o SelectSeq(o, LAMBDA p : ~IsArrayIndex(p[1]))

ObjectKeys(o) == [i \in DOMAIN OwnProperties(o) |-> OwnProperties(o)[i][1]]

ObjectValues(o) == [i \in DOMAIN OwnProperties(o) |-> OwnProperties(o)[i][2]]

-----------------------------------------------------------------------------
(* helpers/sql.js *)

\* The text of the positional parameter with index n.
Placeholder(n) == "$" \o ToString(n)

\* jsToSql[colName] || colName: the empty string is falsy
ColumnName(jsToSql, colName) ==
    IF HasKey(jsToSql, colName) /\ GetKey(jsToSql, colName) # ""
    THEN GetKey(jsToSql, colName)
    ELSE colName

\* A variant that numbers the parameters from 0, as idx does.
SetFragmentFromZero(jsToSql, colName, idx) ==
    <<"\"", ColumnName(jsToSql, colName), "\"", "=", Placeholder(idx)>>

\* `"${jsToSql[colName] || colName}"=$${idx + 1}`, idx counting from 0
SetFragment(jsToSql, colName, idx) ==
    <<"\"", ColumnName(jsToSql, colName), "\"", "=", Placeholder(idx + 1)>>

\* A variant without the check that there is a key.
sqlForPartialUpdateUnchecked(dataToUpdate, jsToSql) ==
    LET keys == ObjectKeys(dataToUpdate)
        cols == [i \in 1..Len(keys) |-> SetFragment(jsToSql, keys[i], i - 1)]
    IN  Return([setCols |-> Join(cols, ", "),
                values |-> ObjectValues(dataToUpdate)])

sqlForPartialUpdate(dataToUpdate, jsToSql) ==
    LET keys == ObjectKeys(dataToUpdate)
    IN  IF Len(keys) = 0 THEN Throw("BadRequestError", "No data")
        ELSE LET cols == [i \in 1..Len(keys) |->
                             SetFragment(jsToSql, keys[i], i - 1)]
             IN  Return([setCols |-> Join(cols, ", "),
                         values |-> ObjectValues(dataToUpdate)])

-----------------------------------------------------------------------------
(* Text: characters, lower-casing, order, LIKE *)

\* The characters of the model, in code-point order.
CharOrder == <<"%", "A", "B", "\\", "_", "a", "b">>

CharRank(c) == CHOOSE i \in DOMAIN CharOrder : CharOrder[i] = c

\* String.prototype.toLowerCase and SQL LOWER, character by character.
LowerChar(c) == CASE c = "A" -> "a" [] c = "B" -> "b" [] OTHER -> c

ToLowerCase(s) == [i \in DOMAIN s |-> LowerChar(s[i])]

\* s <= t in the order of ORDER BY: lexicographic by code point.
RECURSIVE TextLeq(_, _)
TextLeq(s, t) ==
    IF Len(s) = 0 THEN TRUE
    ELSE IF Len(t) = 0 THEN FALSE
    ELSE IF s[1] = t[1] THEN TextLeq(Tail(s), Tail(t))
    ELSE CharRank(s[1]) < CharRank(t[1])

\* SQL's  str LIKE pat : % matches any run of characters, _ any one
\* character, and a backslash makes the character after it literal.
RECURSIVE LikeMatch(_, _)
LikeMatch(str, pat) ==
    IF Len(pat) = 0 THEN Len(str) = 0
    ELSE IF pat[1] = "%"
         THEN \E k \in 0..Len(str) :
                  LikeMatch(SubSeq(str, k + 1, Len(str)), Tail(pat))
    ELSE IF pat[1] = "_"
         THEN Len(str) > 0 /\ LikeMatch(Tail(str), Tail(pat))
    ELSE IF pat[1] = "\\" /\ Len(pat) > 1
         THEN Len(str) > 0 /\ str[1] = pat[2]
              /\ LikeMatch(Tail(str), SubSeq(pat, 3, Len(pat)))
    ELSE Len(str) > 0 /\ str[1] = pat[1] /\ LikeMatch(Tail(str), Tail(pat))

Digits == <<"0", "1", "2", "3", "4", "5", "6", "7", "8", "9">>

DigitValue(c) == (CHOOSE i \in DOMAIN Digits : Digits[i] = c) - 1

RECURSIVE DecimalValue(_)
DecimalValue(s) ==
    IF Len(s) = 0 THEN 0
    ELSE 10 * DecimalValue(SubSeq(s, 1, Len(s) - 1)) + DigitValue(s[Len(s)])

\* t occurs in s as a run of adjacent characters.
Contains(s, t) ==
    \E k \in 0..(Len(s) - Len(t)) : SubSeq(s, k + 1, k + Len(t)) = t

-----------------------------------------------------------------------------
(* The store: what db.query does with a statement and its arguments *)

\* The tables as one value.
Db(j, n, c) == [jobs |-> j, nextJobId |-> n, companies |-> c]

\* The outcome of one db.query call: the rows it returns, or the code of the
\* error it raises, and the tables after it.
DbRows(rows, db) == [error |-> "", rows |-> rows, db |-> db]

DbError(code, db) == [error |-> code, rows |-> <<>>, db |-> db]

\* The indices of the positional parameters that occur in a statement text.
ParamsUsed(text, args) ==
    {i \in 1..(Len(text) + Len(args)) : Placeholder(i) \in Range(text)}

IsPlaceholder(tok, args) == \E i \in DOMAIN args : Placeholder(i) = tok

\* The value bound to the positional parameter written tok.
Bound(tok, args) ==
    args[CHOOSE i \in DOMAIN args : Placeholder(i) = tok]

\* The orders in which the rows of set S can come back under ORDER BY col:
\* rows that agree on col come in any order.
RECURSIVE OrderedBy(_, _)
OrderedBy(S, col) ==
    IF S = {} THEN {<<>>}
    ELSE UNION {{<<r>> \o rest : rest \in OrderedBy(S \ {r}, col)} :
                   r \in {x \in S : \A y \in S : TextLeq(x[col][2], y[col][2])}}

\* The value a predicate's left side has on a row.
ColumnValue(row, expr) ==
    CASE expr = "LOWER(title)" -> Str(ToLowerCase(row.title[2]))
      [] expr = "LOWER(name)" -> Str(ToLowerCase(row.name[2]))
      [] expr = "equity::float" -> row.equity
      [] OTHER -> row[expr]

\* The columns of type integer that the statements compare.
IntegerColumns == {"id", "salary", "num_employees"}

\* The text of an integer parameter read as the integer it writes, NaN when it
\* writes none (invalid input syntax).
IntegerInput(v) ==
    IF Len(v[2]) > 0 /\ \A i \in DOMAIN v[2] : v[2][i] \in Range(Digits)
    THEN Num(DecimalValue(v[2]))
    ELSE <<"NaN">>

\* A parameter compared with an expression has the expression's type: for an
\* integer column a string is read as an integer, and NaN is no integer.
Coerced(expr, operand) ==
    IF expr \in IntegerColumns /\ operand[1] = "string"
    THEN IntegerInput(operand)
    ELSE operand

\* Some parameter compared with an integer column is not an integer.
BadInput(text, args) ==
    \E i \in 1..(Len(text) - 2) :
        /\ text[i] \in IntegerColumns
        /\ text[i + 1] \in {">=", "<=", "="}
        /\ IsPlaceholder(text[i + 2], args)
        /\ Coerced(text[i], Bound(text[i + 2], args))[1] \notin {"number", "null"}

\* One predicate of a WHERE clause, <<expression, operator, operand>>, on a
\* row.  A comparison with NULL is not true.
Satisfies(row, pred, args) ==
    LET operand == IF IsPlaceholder(pred[3], args)
                   THEN Coerced(pred[1], Bound(pred[3], args))
                   ELSE Num(0)
        column == ColumnValue(row, pred[1])
    IN  IF column = Null \/ operand = Null THEN FALSE
        ELSE CASE pred[2] = ">=" -> column[2] >= operand[2]
               [] pred[2] = "<=" -> column[2] <= operand[2]
               [] pred[2] = ">" -> column[2] > operand[2]
               [] pred[2] = "=" -> column[2] = operand[2]
               [] pred[2] = "LIKE" -> LikeMatch(column[2], operand[2])

\* The predicates of a WHERE clause: nothing, or " WHERE " and predicates of
\* three tokens each with " AND " or " OR " between them.
WherePredicates(clause) ==
    [k \in 1..(Len(clause) \div 4) |-> SubSeq(clause, 4 * k - 2, 4 * k)]

\* The first predicate of the run of predicates joined by " AND " that
\* predicate k is in.
RunStart(clause, k) ==
    CHOOSE j \in 1..k :
        /\ j = 1 \/ clause[4 * j - 3] = " OR "
        /\ \A i \in (j + 1)..k : clause[4 * i - 3] # " OR "

\* AND binds tighter than OR: a row matches when there is no predicate, or
\* when all the predicates of one run hold.
Matching(rows, clause, args) ==
    LET preds == WherePredicates(clause)
    IN  {r \in rows :
            \/ Len(preds) = 0
            \/ \E j \in DOMAIN preds :
                   /\ RunStart(clause, j) = j
                   /\ \A k \in DOMAIN preds :
                          RunStart(clause, k) = j => Satisfies(r, preds[k], args)}

\* The assignments of a SET clause: fragments of five tokens, `"`, column,
\* `"`, `=`, parameter, with ", " between them.
SetAssignments(setCols) ==
    [k \in 1..((Len(setCols) + 1) \div 6) |->
        [column |-> setCols[6 * k - 4], param |-> setCols[6 * k - 1]]]

\* A row after the assignments of a SET clause.
RECURSIVE Assigned(_, _, _)
Assigned(row, assignments, args) ==
    IF Len(assignments) = 0 THEN row
    ELSE Assigned([row EXCEPT ![assignments[1].column] =
                                  Bound(assignments[1].param, args)],
                  Tail(assignments), args)

\* The position of the first token tok in text (0: none).
IndexOf(text, tok) ==
    IF tok \in Range(text)
    THEN CHOOSE i \in DOMAIN text :
             text[i] = tok /\ \A j \in 1..(i - 1) : text[j] # tok
    ELSE 0

\* Rows as the statements of the models return them (columns renamed AS).
JobOut(row) ==
    [id |-> row.id, title |-> row.title, salary |-> row.salary,
     equity |-> row.equity, companyHandle |-> row.company_handle]

CompanyOut(row) ==
    [handle |-> row.handle, name |-> row.name, description |-> row.description,
     numEmployees |-> row.num_employees, logoUrl |-> row.logo_url]

Renamed(rows, table) ==
    [i \in DOMAIN rows |->
        IF table = "jobs" THEN JobOut(rows[i]) ELSE CompanyOut(rows[i])]

JobUpdatable == {"id", "title", "salary", "equity", "company_handle"}
CompanyUpdatable == {"handle", "name", "description", "num_employees", "logo_url"}

\* jobs.company_handle references companies: removing companies removes
\* their jobs.
JobsOfOtherCompanies(j, removed) ==
    {r \in j : \A c \in removed : r.company_handle # c.handle}

\* The orders in which the rows of set S can come back when none is asked for.
RECURSIVE AnyOrder(_)
AnyOrder(S) ==
    IF S = {} THEN {<<>>}
    ELSE UNION {{<<r>> \o rest : rest \in AnyOrder(S \ {r})} : r \in S}

\* SELECT ... FROM table [WHERE ...] [ORDER BY col]
DbSelect(db, text, args, table) ==
    LET ordered == text[Len(text)] \in {" ORDER BY title", " ORDER BY name"}
        clause == SubSeq(text, 2, Len(text) - (IF ordered THEN 1 ELSE 0))
        found == Matching(db[table], clause, args)
        col == IF text[Len(text)] = " ORDER BY title" THEN "title" ELSE "name"
    IN  IF ordered
        THEN {DbRows(Renamed(s, table), db) : s \in OrderedBy(found, col)}
        ELSE {DbRows(Renamed(s, table), db) : s \in AnyOrder(found)}

\* UPDATE table SET ... WHERE key = $n RETURNING ...
DbUpdate(db, text, args, table, columns) ==
    LET w == IndexOf(text, " WHERE ")
        assignments == SetAssignments(SubSeq(text, 2, w - 1))
        found == Matching(db[table], SubSeq(text, w, w + 3), args)
        after(r) == IF r \in found THEN Assigned(r, assignments, args) ELSE r
    IN  IF w <= 2 \/ (w - 1) % 6 # 0
        THEN {DbError("42601", db)}
        ELSE IF \E k \in DOMAIN assignments : assignments[k].column \notin columns
        THEN {DbError("42703", db)}
        ELSE {DbRows(Renamed(s, table),
                     [db EXCEPT ![table] = {after(r) : r \in db[table]}]) :
                 s \in AnyOrder({after(r) : r \in found})}

\* The statement texts of models/job.js
JobSelectList ==
    "SELECT id, title, salary, equity, company_handle AS \"companyHandle\" FROM jobs"

JobInsertText ==
    <<"INSERT INTO Jobs (title, salary, equity, company_handle) VALUES (",
      "$1", ", ", "$2", ", ", "$3", ", ", "$4",
      ") RETURNING id, title, salary, equity, company_handle as \"companyHandle\"">>

JobReturning ==
    " RETURNING id, title, salary, equity, company_handle AS \"companyHandle\""

\* The statement texts of models/company.js
CompanySelectList ==
    "SELECT handle, name, description, num_employees AS \"numEmployees\", logo_url AS \"logoUrl\" FROM companies"

CompanyInsertText ==
    <<"INSERT INTO companies (handle, name, description, num_employees, logo_url) VALUES (",
      "$1", ", ", "$2", ", ", "$3", ", ", "$4", ", ", "$5",
      ") RETURNING handle, name, description, num_employees AS \"numEmployees\", logo_url AS \"logoUrl\"">>

CompanyReturning ==
    " RETURNING handle, name, description, num_employees AS \"numEmployees\", logo_url AS \"logoUrl\""

\* db.query(text, args): the outcomes the store can answer with.  A statement
\* must use exactly the parameters $1..$n for n arguments.
DbQuery(db, text, args) ==
    IF ParamsUsed(text, args) # 1..Len(args) THEN {DbError("08P01", db)}
    ELSE IF BadInput(text, args) THEN {DbError("22P02", db)}
    ELSE CASE text[1] = JobInsertText[1] ->
                 IF \A c \in db.companies : c.handle # args[4]
                 THEN {DbError("23503", db)}
                 ELSE LET row == [id |-> Num(db.nextJobId), title |-> args[1],
                                  salary |-> args[2], equity |-> args[3],
                                  company_handle |-> args[4]]
                      IN  {DbRows(<<JobOut(row)>>,
                                  [db EXCEPT !.jobs = @ \cup {row},
                                             !.nextJobId = @ + 1])}
           [] text[1] = JobSelectList ->
                 DbSelect(db, text, args, "jobs")
           [] text[1] = "UPDATE jobs SET " ->
                 DbUpdate(db, text, args, "jobs", JobUpdatable)
           [] text[1] = "DELETE FROM jobs" ->
                 LET found == Matching(db.jobs, SubSeq(text, 2, 5), args)
                 IN  {DbRows(s, [db EXCEPT !.jobs = @ \ found]) :
                         s \in AnyOrder({[id |-> r.id] : r \in found})}
           [] text[1] = CompanyInsertText[1] ->
                 IF \E c \in db.companies : c.handle = args[1]
                 THEN {DbError("23505", db)}
                 ELSE LET row == [handle |-> args[1], name |-> args[2],
                                  description |-> args[3],
                                  num_employees |-> args[4],
                                  logo_url |-> args[5]]
                      IN  {DbRows(<<CompanyOut(row)>>,
                                  [db EXCEPT !.companies = @ \cup {row}])}
           [] text[1] = CompanySelectList ->
                 DbSelect(db, text, args, "companies")
           [] text[1] = "SELECT handle FROM companies" ->
                 LET found == Matching(db.companies, SubSeq(text, 2, 5), args)
                 IN  {DbRows(s, db) :
                         s \in AnyOrder({[handle |-> r.handle] : r \in found})}
           [] text[1] = "UPDATE companies SET " ->
                 DbUpdate(db, text, args, "companies", CompanyUpdatable)
           [] text[1] = "DELETE FROM companies" ->
                 LET found == Matching(db.companies, SubSeq(text, 2, 5), args)
                 IN  {DbRows(s, [db EXCEPT
                                    !.companies = @ \ found,
                                    !.jobs = JobsOfOtherCompanies(@, found)]) :
                         s \in AnyOrder({[handle |-> r.handle] : r \in found})}

-----------------------------------------------------------------------------
(* The models: what an operation does, given the tables *)

\* What a call did: the db.query calls it made, what it returned or threw,
\* and the tables after it.
Outcome(q, r, db) == [queries |-> q, result |-> r, db |-> db]

Query(text, args) == [text |-> text, args |-> args]

\* object[key], undefined when the object has no such property
Prop(o, k) == IF HasKey(o, k) THEN GetKey(o, k) ELSE Undefined

\* ToBoolean
Truthy(v) ==
    CASE v[1] = "undefined" -> FALSE
      [] v[1] = "null" -> FALSE
      [] v[1] = "NaN" -> FALSE
      [] v[1] = "number" -> v[2] # 0
      [] v[1] = "boolean" -> v[2]
      [] v[1] = "string" -> Len(v[2]) > 0

\* An error of the store reaches the caller as it is.
StoreError(code) == Throw("DatabaseError", code)

\* rows[0] taken for a row also when the result has none.
FirstRowAlways(rows) == <<"row", IF Len(rows) > 0 THEN rows[1] ELSE <<>>>>

\* rows[0], undefined when there is no row
FirstRow(rows) == IF Len(rows) > 0 THEN <<"row", rows[1]>> ELSE Undefined

(* models/job.js *)

JobCreate(db, data) ==
    LET q == Query(JobInsertText,
                   <<Prop(data, "title"), Prop(data, "salary"),
                     Prop(data, "equity"), Prop(data, "companyHandle")>>)
    IN  {Outcome(<<q>>,
                 IF out.error # "" THEN StoreError(out.error)
                 ELSE Return(FirstRow(out.rows)),
                 out.db) : out \in DbQuery(db, q.text, q.args)}

\* A variant that tests minSalary for truthiness.
MinSalaryGivenTruthy(minSalary) == Truthy(minSalary)

\* minSalary !== undefined
MinSalaryGiven(minSalary) == minSalary # Undefined

\* A variant with a strict comparison.
SalaryPredicateStrict(n) == <<"salary", ">", Placeholder(n)>>

\* `salary >= $${queryValues.length}`
SalaryPredicate(n) == <<"salary", ">=", Placeholder(n)>>

\* `%${title.toLowerCase()}%`
TitlePattern(title) == Str(<<"%">> \o ToLowerCase(title[2]) \o <<"%">>)

\* A variant that always writes the first parameter.
TitlePredicateFirst(n) == <<"LOWER(title)", "LIKE", Placeholder(1)>>

\* `LOWER(title) LIKE $${queryValues.length}`
TitlePredicate(n) == <<"LOWER(title)", "LIKE", Placeholder(n)>>

\* A variant that asks whether hasEquity is given.
EquityAskedGiven(hasEquity) == hasEquity # Undefined

\* hasEquity === true
EquityAsked(hasEquity) == hasEquity = Bool(TRUE)

\* `equity::float > 0`
EquityPredicate == <<"equity::float", ">", "0">>

\* A variant that writes WHERE whether or not there is a part.
JobWhereClauseAlways(whereParts) == <<" WHERE ">> \o Join(whereParts, " AND ")

\* A variant that joins the parts with OR.
JobWhereClauseAny(whereParts) ==
    IF Len(whereParts) > 0
    THEN <<" WHERE ">> \o Join(whereParts, " OR ")
    ELSE <<>>

\* " WHERE " + whereParts.join(" AND "), when there is a part
JobWhereClause(whereParts) ==
    IF Len(whereParts) > 0
    THEN <<" WHERE ">> \o Join(whereParts, " AND ")
    ELSE <<>>

\* argv: the arguments of the call, none or the filters (filters = {})
JobFindAllQuery(argv) ==
    LET filters == IF Len(argv) = 0 THEN <<>> ELSE argv[1]
        title == Prop(filters, "title")
        minSalary == Prop(filters, "minSalary")
        hasEquity == Prop(filters, "hasEquity")
        values1 == IF MinSalaryGiven(minSalary) THEN <<minSalary>> ELSE <<>>
        where1 == IF MinSalaryGiven(minSalary)
                  THEN <<SalaryPredicate(Len(values1))>>
                  ELSE <<>>
        values2 == IF Truthy(title)
                   THEN Append(values1, TitlePattern(title))
                   ELSE values1
        where2 == IF Truthy(title)
                  THEN Append(where1, TitlePredicate(Len(values2)))
                  ELSE where1
        where3 == IF EquityAsked(hasEquity)
                  THEN Append(where2, EquityPredicate)
                  ELSE where2
    IN  Query(<<JobSelectList>> \o JobWhereClause(where3)
              \o <<" ORDER BY title">>,
              values2)

JobFindAll(db, argv) ==
    LET q == JobFindAllQuery(argv)
    IN  {Outcome(<<q>>,
                 IF out.error # "" THEN StoreError(out.error)
                 ELSE Return(out.rows),
                 out.db) : out \in DbQuery(db, q.text, q.args)}

JobGet(db, id) ==
    LET q == Query(<<JobSelectList, " WHERE ", "id", "=", "$1">>, <<id>>)
    IN  {Outcome(<<q>>,
                 IF out.error # "" THEN StoreError(out.error)
                 ELSE IF FirstRow(out.rows) = Undefined
                      THEN Throw("NotFoundError", <<"No job: ", id>>)
                      ELSE Return(FirstRow(out.rows)),
                 out.db) : out \in DbQuery(db, q.text, q.args)}

JobJsToSql ==
    <<<<"title", "title">>, <<"salary", "salary">>, <<"equity", "equity">>>>

\* A variant that gives the key the index of the last field.
idVarIdxLast(values) == Placeholder(Len(values))

\* "$" + (values.length + 1)
idVarIdx(values) == Placeholder(Len(values) + 1)

JobUpdate(db, id, data) ==
    LET built == sqlForPartialUpdate(data, JobJsToSql)
        q == Query(<<"UPDATE jobs SET ">> \o built.value.setCols
                   \o <<" WHERE ", "id", "=", idVarIdx(built.value.values),
                        JobReturning>>,
                   built.value.values \o <<id>>)
    IN  IF built.kind = "throw" THEN {Outcome(<<>>, built, db)}
        ELSE {Outcome(<<q>>,
                      IF out.error # "" THEN StoreError(out.error)
                      ELSE IF FirstRow(out.rows) = Undefined
                           THEN Throw("NotFoundError", <<"No job: ", id>>)
                           ELSE Return(FirstRow(out.rows)),
                      out.db) : out \in DbQuery(db, q.text, q.args)}

JobRemove(db, id) ==
    LET q == Query(<<"DELETE FROM jobs", " WHERE ", "id", "=", "$1",
                     " RETURNING id">>, <<id>>)
    IN  {Outcome(<<q>>,
                 IF out.error # "" THEN StoreError(out.error)
                 ELSE IF FirstRow(out.rows) = Undefined
                      THEN Throw("NotFoundError", <<"No job: ", id>>)
                      ELSE Return(Undefined),
                 out.db) : out \in DbQuery(db, q.text, q.args)}

(* models/company.js *)

\* The statement of the duplicate check and the INSERT of Company.create.
DuplicateCheck(data) ==
    Query(<<"SELECT handle FROM companies", " WHERE ", "handle", "=", "$1">>,
          <<Prop(data, "handle")>>)

CompanyInsert(data) ==
    Query(CompanyInsertText,
          <<Prop(data, "handle"), Prop(data, "name"), Prop(data, "description"),
            Prop(data, "numEmployees"), Prop(data, "logoUrl")>>)

CompanyCreate(db, data) ==
    LET handle == Prop(data, "handle")
        check == DuplicateCheck(data)
        insert == CompanyInsert(data)
    IN  UNION {
          IF dup.error # "" THEN {Outcome(<<check>>, StoreError(dup.error), dup.db)}
          ELSE IF FirstRow(dup.rows) # Undefined
          THEN {Outcome(<<check>>,
                        Throw("BadRequestError", <<"Duplicate company: ", handle>>),
                        dup.db)}
          ELSE {Outcome(<<check, insert>>,
                        IF out.error # "" THEN StoreError(out.error)
                        ELSE Return(FirstRow(out.rows)),
                        out.db) : out \in DbQuery(dup.db, insert.text, insert.args)}
          : dup \in DbQuery(db, check.text, check.args)}

\* const { name, minEmployees, maxEmployees } = filters
CompanyFilterKeys == {"name", "minEmployees", "maxEmployees"}

\* minEmployees !== undefined, maxEmployees !== undefined
EmployeesGiven(bound) == bound # Undefined

\* `num_employees >= $${queryValues.length}`
MinEmployeesPredicate(n) == <<"num_employees", ">=", Placeholder(n)>>

\* `num_employees <= $${queryValues.length}`
MaxEmployeesPredicate(n) == <<"num_employees", "<=", Placeholder(n)>>

\* `%${name.toLowerCase()}%`
NamePattern(name) == Str(<<"%">> \o ToLowerCase(name[2]) \o <<"%">>)

\* `LOWER(name) LIKE $${queryValues.length}`
NamePredicate(n) == <<"LOWER(name)", "LIKE", Placeholder(n)>>

\* " WHERE " + whereParts.join(" AND "), when there is a part
CompanyWhereClause(whereParts) ==
    IF Len(whereParts) > 0
    THEN <<" WHERE ">> \o Join(whereParts, " AND ")
    ELSE <<>>

CompanyFindAllQuery(argv) ==
    LET filters == IF Len(argv) = 0 THEN <<>> ELSE argv[1]
        name == Prop(filters, "name")
        minEmployees == Prop(filters, "minEmployees")
        maxEmployees == Prop(filters, "maxEmployees")
        values1 == IF EmployeesGiven(minEmployees) THEN <<minEmployees>> ELSE <<>>
        where1 == IF EmployeesGiven(minEmployees)
                  THEN <<MinEmployeesPredicate(Len(values1))>>
                  ELSE <<>>
        values2 == IF EmployeesGiven(maxEmployees)
                   THEN Append(values1, maxEmployees) ELSE values1
        where2 == IF EmployeesGiven(maxEmployees)
                  THEN Append(where1, MaxEmployeesPredicate(Len(values2)))
                  ELSE where1
        values3 == IF Truthy(name)
                   THEN Append(values2, NamePattern(name))
                   ELSE values2
        where3 == IF Truthy(name)
                  THEN Append(where2, NamePredicate(Len(values3)))
                  ELSE where2
    IN  Query(<<CompanySelectList>> \o CompanyWhereClause(where3)
              \o <<" ORDER BY name">>,
              values3)

CompanyFindAll(db, argv) ==
    LET q == CompanyFindAllQuery(argv)
    IN  {Outcome(<<q>>,
                 IF out.error # "" THEN StoreError(out.error)
                 ELSE Return(out.rows),
                 out.db) : out \in DbQuery(db, q.text, q.args)}

CompanyGet(db, handle) ==
    LET q == Query(<<CompanySelectList, " WHERE ", "handle", "=", "$1">>,
                   <<handle>>)
    IN  {Outcome(<<q>>,
                 IF out.error # "" THEN StoreError(out.error)
                 ELSE IF FirstRow(out.rows) = Undefined
                      THEN Throw("NotFoundError", <<"No company: ", handle>>)
                      ELSE Return(FirstRow(out.rows)),
                 out.db) : out \in DbQuery(db, q.text, q.args)}

CompanyJsToSql ==
    <<<<"numEmployees", "num_employees">>, <<"logoUrl", "logo_url">>>>

\* "$" + (values.length + 1)
handleVarIdx(values) == Placeholder(Len(values) + 1)

CompanyUpdate(db, handle, data) ==
    LET built == sqlForPartialUpdate(data, CompanyJsToSql)
        q == Query(<<"UPDATE companies SET ">> \o built.value.setCols
                   \o <<" WHERE ", "handle", "=",
                        handleVarIdx(built.value.values), CompanyReturning>>,
                   built.value.values \o <<handle>>)
    IN  IF built.kind = "throw" THEN {Outcome(<<>>, built, db)}
        ELSE {Outcome(<<q>>,
                      IF out.error # "" THEN StoreError(out.error)
                      ELSE IF FirstRow(out.rows) = Undefined
                           THEN Throw("NotFoundError", <<"No company: ", handle>>)
                           ELSE Return(FirstRow(out.rows)),
                      out.db) : out \in DbQuery(db, q.text, q.args)}

CompanyRemove(db, handle) ==
    LET q == Query(<<"DELETE FROM companies", " WHERE ", "handle", "=", "$1",
                     " RETURNING handle">>, <<handle>>)
    IN  {Outcome(<<q>>,
                 IF out.error # "" THEN StoreError(out.error)
                 ELSE IF FirstRow(out.rows) = Undefined
                      THEN Throw("NotFoundError", <<"No company: ", handle>>)
                      ELSE Return(Undefined),
                 out.db) : out \in DbQuery(db, q.text, q.args)}

-----------------------------------------------------------------------------
(* routes/jobs.js: GET /jobs *)

\* Unary plus on a string of the query: the number its digits write, 0 for
\* the empty string, NaN for a text that is no number.
ToNumber(v) ==
    IF Len(v[2]) = 0 THEN Num(0)
    ELSE IF \A i \in DOMAIN v[2] : v[2][i] \in Range(Digits)
         THEN Num(DecimalValue(v[2]))
    ELSE IF v[2][1] = "-" /\ Len(v[2]) > 1
            /\ \A i \in 2..Len(v[2]) : v[2][i] \in Range(Digits)
         THEN Num(0 - DecimalValue(Tail(v[2])))
    ELSE <<"NaN">>

\* object[key] = value: the property keeps its place, a new one goes last
SetProp(o, k, v) ==
    IF HasKey(o, k)
    THEN [i \in DOMAIN o |-> IF o[i][1] = k THEN <<k, v>> ELSE o[i]]
    ELSE Append(o, <<k, v>>)

JobAllowedFilters == {"title", "minSalary", "hasEquity"}

\* schemas/jobSearch.json: title a string, minSalary an integer, hasEquity
\* a boolean
JobSearchValid(q) ==
    /\ HasKey(q, "title") => Prop(q, "title")[1] = "string"
    /\ HasKey(q, "minSalary") => Prop(q, "minSalary")[1] = "number"
    /\ HasKey(q, "hasEquity") => Prop(q, "hasEquity")[1] = "boolean"

\* req.query.hasEquity === "true"
HasEquityConverted(text) == Bool(text = Str(<<"t", "r", "u", "e">>))

\* req.query after the conversions of the handler
JobQueryConverted(query) ==
    LET q1 == IF Prop(query, "minSalary") # Undefined
              THEN SetProp(query, "minSalary", ToNumber(Prop(query, "minSalary")))
              ELSE query
    IN  IF Prop(q1, "hasEquity") # Undefined
        THEN SetProp(q1, "hasEquity", HasEquityConverted(Prop(q1, "hasEquity")))
        ELSE q1

\* What a handler did that awaited the model's method op on args with outcome
\* o: it answers { <name>: <value> }, and an error goes to next(err).
Handled(o, op, args, name) ==
    [queries |-> o.queries,
     result |-> IF o.result.kind = "return"
                THEN Return(<<name, o.result.value>>) ELSE o.result,
     db |-> o.db,
     invoked |-> <<[op |-> op, args |-> args]>>]

GetJobs(db, query) ==
    LET q == JobQueryConverted(query)
        unknown == {i \in DOMAIN OwnProperties(q) :
                       ObjectKeys(q)[i] \notin JobAllowedFilters}
    IN  IF unknown # {}
        THEN {Outcome(<<>>,
                      Throw("BadRequestError",
                            <<"Invalid filter: ",
                              ObjectKeys(q)[CHOOSE i \in unknown :
                                               \A j \in unknown : i <= j]>>),
                      db)}
        ELSE IF ~JobSearchValid(q)
        THEN {Outcome(<<>>, Throw("BadRequestError", <<"jobSearch">>), db)}
        ELSE {Handled(o, "Job.findAll", <<q>>, "jobs") : o \in JobFindAll(db, <<q>>)}

(* routes/companies.js: GET /companies *)

\* The allow-list with the name of the builder's own filter added to it.
CompanyAllowedFiltersWithName ==
    <<"minEmployees", "maxEmployees", "nameLike", "name">>

CompanyAllowedFilters == <<"minEmployees", "maxEmployees", "nameLike">>

\* delete object[key]
DeleteProp(o, k) == SelectSeq(o, LAMBDA p : p[1] # k)

\* a > b on what unary plus gives: false when either side is NaN
GreaterThan(a, b) == a[1] = "number" /\ b[1] = "number" /\ a[2] > b[2]

\* req.query after the conversions and the renaming of the handler
CompanyQueryConverted(query) ==
    LET q1 == IF Prop(query, "minEmployees") # Undefined
              THEN SetProp(query, "minEmployees",
                           ToNumber(Prop(query, "minEmployees")))
              ELSE query
        q2 == IF Prop(q1, "maxEmployees") # Undefined
              THEN SetProp(q1, "maxEmployees", ToNumber(Prop(q1, "maxEmployees")))
              ELSE q1
    IN  IF Prop(q2, "nameLike") # Undefined
        THEN DeleteProp(SetProp(q2, "name", Prop(q2, "nameLike")), "nameLike")
        ELSE q2

GetCompanies(db, query) ==
    LET unknown == {i \in DOMAIN OwnProperties(query) :
                       ObjectKeys(query)[i] \notin Range(CompanyAllowedFilters)}
        q == CompanyQueryConverted(query)
    IN  IF unknown # {}
        THEN {Outcome(<<>>,
                      Throw("BadRequestError",
                            <<"Invalid filter: ",
                              ObjectKeys(query)[CHOOSE i \in unknown :
                                                   \A j \in unknown : i <= j]>>),
                      db)}
        ELSE IF /\ Prop(q, "minEmployees") # Undefined
                /\ Prop(q, "maxEmployees") # Undefined
                /\ GreaterThan(Prop(q, "minEmployees"), Prop(q, "maxEmployees"))
        THEN {Outcome(<<>>,
                      Throw("BadRequestError",
                            <<"minEmployees cannot be greater than maxEmployees">>),
                      db)}
        ELSE {Handled(o, "Company.findAll", <<q>>, "companies") :
                 o \in CompanyFindAll(db, <<q>>)}

(* middleware/auth.js and the routes that change rows *)

\* ensureLoggedIn's test in the place of ensureAdmin's: a user is there.
IsLoggedIn(user) == user # Undefined

\* ensureAdmin lets the request through: res.locals.user is there and its
\* isAdmin is true.
IsAdmin(user) == user # Undefined /\ Prop(user, "isAdmin") = Bool(TRUE)

\* ensureAdmin hands next() this error and the handler does not run.
Unauthorized == Throw("UnauthorizedError", <<"Requires admin privileges!">>)

\* Every property of body has a key of types' domain and a value of a type
\* that types allows for it.
WellTyped(body, types) ==
    \A i \in DOMAIN body :
        body[i][1] \in DOMAIN types /\ body[i][2][1] \in types[body[i][1]]

\* schemas/jobNew.json, schemas/jobUpdate.json, schemas/companyNew.json,
\* schemas/companyUpdate.json
JobNewValid(body) ==
    /\ WellTyped(body, [title |-> {"string"}, salary |-> {"number", "null"},
                        equity |-> {"number", "null"},
                        companyHandle |-> {"string"}])
    /\ HasKey(body, "title") /\ HasKey(body, "companyHandle")

JobUpdateValid(body) ==
    WellTyped(body, [title |-> {"string"}, salary |-> {"number", "null"},
                     equity |-> {"number", "null"}])

CompanyNewValid(body) ==
    /\ WellTyped(body, [handle |-> {"string"}, name |-> {"string"},
                        description |-> {"string"},
                        numEmployees |-> {"number", "null"},
                        logoUrl |-> {"string", "null"}])
    /\ HasKey(body, "handle") /\ HasKey(body, "name")
    /\ HasKey(body, "description")

CompanyUpdateValid(body) ==
    WellTyped(body, [name |-> {"string"}, description |-> {"string"},
                     numEmployees |-> {"number", "null"},
                     logoUrl |-> {"string", "null"}])

Invalid(db, schema) == {Outcome(<<>>, Throw("BadRequestError", <<schema>>), db)}

\* What a handler did that awaited a remove with outcome o: it answers
\* { deleted: <key> }.
Deleted(o, op, key) ==
    [queries |-> o.queries,
     result |-> IF o.result.kind = "return"
                THEN Return(<<"deleted", key>>) ELSE o.result,
     db |-> o.db,
     invoked |-> <<[op |-> op, args |-> <<key>>]>>]

PostJobs(db, user, body) ==
    IF ~IsAdmin(user) THEN {Outcome(<<>>, Unauthorized, db)}
    ELSE IF ~JobNewValid(body) THEN Invalid(db, "jobNew")
    ELSE {Handled(o, "Job.create", <<body>>, "job") : o \in JobCreate(db, body)}

PatchJob(db, user, id, body) ==
    IF ~IsAdmin(user) THEN {Outcome(<<>>, Unauthorized, db)}
    ELSE IF ~JobUpdateValid(body) THEN Invalid(db, "jobUpdate")
    ELSE {Handled(o, "Job.update", <<id, body>>, "job") :
             o \in JobUpdate(db, id, body)}

DeleteJob(db, user, id) ==
    IF ~IsAdmin(user) THEN {Outcome(<<>>, Unauthorized, db)}
    ELSE {Deleted(o, "Job.remove", id) : o \in JobRemove(db, id)}

PostCompanies(db, user, body) ==
    IF ~IsAdmin(user) THEN {Outcome(<<>>, Unauthorized, db)}
    ELSE IF ~CompanyNewValid(body) THEN Invalid(db, "companyNew")
    ELSE {Handled(o, "Company.create", <<body>>, "company") :
             o \in CompanyCreate(db, body)}

PatchCompany(db, user, handle, body) ==
    IF ~IsAdmin(user) THEN {Outcome(<<>>, Unauthorized, db)}
    ELSE IF ~CompanyUpdateValid(body) THEN Invalid(db, "companyUpdate")
    ELSE {Handled(o, "Company.update", <<handle, body>>, "company") :
             o \in CompanyUpdate(db, handle, body)}

DeleteCompany(db, user, handle) ==
    IF ~IsAdmin(user) THEN {Outcome(<<>>, Unauthorized, db)}
    ELSE {Deleted(o, "Company.remove", handle) : o \in CompanyRemove(db, handle)}

-----------------------------------------------------------------------------
(* The state machine *)

Tables == Db(jobs, nextJobId, companies)

NoCall == [op |-> "none", args |-> <<>>]

\* The calls of Company.create that can be under way together, and one that
\* is not under way.
Creators == 1..MaxCreates

NotCreating == [at |-> "none", data |-> <<>>, result |-> NoResult]

\* One call of operation op with arguments args, with one of its outcomes.
\* Calls are made one after the other: the next one when the caller has
\* taken the result of the last (Taken).
Perform(op, args, outcomes) ==
    /\ call = NoCall
    /\ \E o \in outcomes :
           /\ call' = [op |-> op, args |-> args]
           /\ queries' = o.queries
           /\ result' = o.result
           /\ jobs' = o.db.jobs
           /\ nextJobId' = o.db.nextJobId
           /\ companies' = o.db.companies
           /\ invoked' = (IF "invoked" \in DOMAIN o THEN o.invoked ELSE <<>>)
           /\ UNCHANGED pending

Init ==
    /\ jobs = {}
    /\ nextJobId = 1
    /\ companies = {}
    /\ call = NoCall
    /\ queries = <<>>
    /\ result = NoResult
    /\ invoked = <<>>
    /\ pending = [p \in Creators |-> NotCreating]

\* The caller has taken the result of the last call: the tables stay.
Taken ==
    /\ call # NoCall
    /\ call' = NoCall
    /\ queries' = <<>>
    /\ result' = NoResult
    /\ invoked' = <<>>
    /\ UNCHANGED <<jobs, nextJobId, companies, pending>>

\* The objects with at most n properties, of keys K, key k with a value of V[k],
\* in every order of insertion.
Objects(K, V, n) ==
    {o \in SeqUpTo(UNION {{<<k, v>> : v \in V[k]} : k \in K}, n) : IsObject(o)}

\* The objects with one property for each key of sequence ks that has a
\* value, in the order of ks; V[k] holds the choices for key k, Undefined
\* meaning that the object has no such property.
RECURSIVE Records(_, _)
Records(ks, V) ==
    IF Len(ks) = 0 THEN {<<>>}
    ELSE {IF v = Undefined THEN rest ELSE <<<<ks[1], v>>>> \o rest :
             v \in V[ks[1]], rest \in Records(Tail(ks), V)}

(* The partial-update compiler alone *)

SqlKeys == {"firstName", "age", "0", "1"}

SqlValues ==
    [k \in SqlKeys |-> IF k = "firstName" THEN {Str(<<"A">>), Str(<<"B">>)}
                       ELSE IF k = "1" THEN {Str(<<"A">>)}
                       ELSE {Num(32)}]

SqlNameMaps ==
    {<<>>,
     <<<<"firstName", "first_name">>>>,
     <<<<"firstName", "">>>>,
     <<<<"age", "years">>, <<"firstName", "first_name">>>>,
     <<<<"firstName", "first_name">>, <<"age", "">>>>,
     <<<<"0", "zero">>>>}

CallSqlForPartialUpdate(dataToUpdate, jsToSql) ==
    /\ call = NoCall
    /\ call' = [op |-> "sqlForPartialUpdate", args |-> <<dataToUpdate, jsToSql>>]
    /\ result' = sqlForPartialUpdate(dataToUpdate, jsToSql)
    /\ UNCHANGED <<jobs, nextJobId, companies, queries, invoked, pending>>

NextSql ==
    \/ \E dataToUpdate \in Objects(SqlKeys, SqlValues, MaxFields),
          jsToSql \in SqlNameMaps :
           CallSqlForPartialUpdate(dataToUpdate, jsToSql)
    \/ Taken

SpecSql == Init /\ [][NextSql]_vars

(* The calls of the models *)

CallJobCreate(data) ==
    Perform("Job.create", <<data>>, JobCreate(Tables, data))

CallJobFindAll(argv) == Perform("Job.findAll", argv, JobFindAll(Tables, argv))

CallJobGet(id) == Perform("Job.get", <<id>>, JobGet(Tables, id))

CallJobUpdate(id, data) ==
    Perform("Job.update", <<id, data>>, JobUpdate(Tables, id, data))

CallJobRemove(id) == Perform("Job.remove", <<id>>, JobRemove(Tables, id))

CallCompanyCreate(data) ==
    Perform("Company.create", <<data>>, CompanyCreate(Tables, data))

CallCompanyFindAll(argv) ==
    Perform("Company.findAll", argv, CompanyFindAll(Tables, argv))

CallCompanyGet(handle) ==
    Perform("Company.get", <<handle>>, CompanyGet(Tables, handle))

CallCompanyUpdate(handle, data) ==
    Perform("Company.update", <<handle, data>>,
            CompanyUpdate(Tables, handle, data))

CallCompanyRemove(handle) ==
    Perform("Company.remove", <<handle>>, CompanyRemove(Tables, handle))

CallGetJobs(query) == Perform("GET /jobs", <<query>>, GetJobs(Tables, query))

(* Creating, reading, updating and removing rows *)

JobIds == {Num(i) : i \in 1..MaxJobs}

Handles == {Str(<<"c">>)}

NewCompanies ==
    {<<<<"handle", h>>, <<"name", Str(<<"A", "b">>)>>,
       <<"description", Str(<<"a">>)>>, <<"numEmployees", Num(1)>>,
       <<"logoUrl", Null>>>> : h \in Handles}

NewJobs ==
    {<<<<"title", Str(<<"A", "b">>)>>, <<"salary", Num(1)>>,
       <<"equity", Num(5)>>, <<"companyHandle", h>>>> : h \in Handles}

JobUpdates ==
    Objects({"title", "salary", "equity"},
            [k \in {"title", "salary", "equity"} |->
                CASE k = "title" -> {Str(<<"b">>)}
                  [] k = "salary" -> {Num(2)}
                  [] k = "equity" -> {Num(0)}],
            MaxFields)

CompanyUpdates ==
    Objects({"name", "numEmployees", "logoUrl"},
            [k \in {"name", "numEmployees", "logoUrl"} |->
                CASE k = "name" -> {Str(<<"b">>)}
                  [] k = "numEmployees" -> {Num(2)}
                  [] k = "logoUrl" -> {Null}],
            MaxFields)

Next ==
    \/ \E jsToSql \in SqlNameMaps : CallSqlForPartialUpdate(<<>>, jsToSql)
    \/ \E data \in NewJobs : nextJobId <= MaxJobs /\ CallJobCreate(data)
    \/ CallJobFindAll(<<>>)
    \/ \E id \in JobIds : CallJobGet(id)
    \/ \E id \in JobIds, data \in JobUpdates : CallJobUpdate(id, data)
    \/ \E id \in JobIds : CallJobRemove(id)
    \/ \E data \in NewCompanies : CallCompanyCreate(data)
    \/ CallCompanyFindAll(<<>>)
    \/ \E handle \in Handles : CallCompanyGet(handle)
    \/ \E handle \in Handles, data \in CompanyUpdates :
           CallCompanyUpdate(handle, data)
    \/ \E handle \in Handles : CallCompanyRemove(handle)
    \/ Taken

Spec == Init /\ [][Next]_vars

(* Listing the rows *)

ListedCompanies ==
    {<<<<"handle", Str(<<"c">>)>>, <<"name", Str(<<"A", "b">>)>>,
       <<"description", Str(<<"a">>)>>, <<"numEmployees", Num(1)>>,
       <<"logoUrl", Null>>>>,
     <<<<"handle", Str(<<"d">>)>>, <<"name", Str(<<"b", "_">>)>>,
       <<"description", Str(<<"a">>)>>, <<"numEmployees", Num(2)>>,
       <<"logoUrl", Null>>>>,
     <<<<"handle", Str(<<"e">>)>>, <<"name", Str(<<"A", "b">>)>>,
       <<"description", Str(<<"a">>)>>, <<"numEmployees", Null>>,
       <<"logoUrl", Null>>>>}

ListedJobs ==
    {<<<<"title", Str(<<"A", "b">>)>>, <<"salary", Num(1)>>,
       <<"equity", Num(5)>>, <<"companyHandle", Str(<<"c">>)>>>>,
     <<<<"title", Str(<<"b", "_">>)>>, <<"salary", Num(2)>>,
       <<"equity", Num(0)>>, <<"companyHandle", Str(<<"c">>)>>>>,
     <<<<"title", Str(<<"A", "b">>)>>, <<"salary", Null>>,
       <<"equity", Null>>, <<"companyHandle", Str(<<"c">>)>>>>}

Patterns ==
    {Undefined, Str(<<>>), Str(<<"a">>), Str(<<"B">>), Str(<<"_">>),
     Str(<<"%">>)}

JobFilters ==
    Records(<<"minSalary", "title", "hasEquity">>,
            [k \in {"minSalary", "title", "hasEquity"} |->
                CASE k = "minSalary" -> {Undefined, Num(0), Num(2)}
                  [] k = "title" -> Patterns
                  [] k = "hasEquity" -> {Undefined, Bool(FALSE), Bool(TRUE)}])
    \cup {<<<<"title", Undefined>>, <<"minSalary", Undefined>>,
            <<"hasEquity", Undefined>>>>}

CompanyFilters ==
    Records(<<"minEmployees", "maxEmployees", "name">>,
            [k \in {"minEmployees", "maxEmployees", "name"} |->
                CASE k = "minEmployees" -> {Undefined, Num(0), Num(2)}
                  [] k = "maxEmployees" -> {Undefined, Num(0), Num(1)}
                  [] k = "name" -> Patterns])
    \cup {<<<<"name", Undefined>>, <<"minEmployees", Undefined>>,
            <<"maxEmployees", Undefined>>>>}

JobQueries ==
    Records(<<"minSalary", "hasEquity">>,
            [k \in {"minSalary", "hasEquity"} |->
                CASE k = "minSalary" -> {Undefined, Str(<<"2">>), Str(<<"x">>)}
                  [] k = "hasEquity" ->
                        {Undefined, Str(<<"t", "r", "u", "e">>),
                         Str(<<"f", "a", "l", "s", "e">>),
                         Str(<<"T", "r", "u", "e">>)}])
    \cup {<<<<"hasEquity", Str(<<"t", "r", "u", "e">>)>>, <<"name", Str(<<"a">>)>>>>}

NextFind ==
    \/ \E data \in ListedCompanies :
           Cardinality(companies) < MaxRows /\ CallCompanyCreate(data)
    \/ \E data \in ListedJobs :
           Cardinality(jobs) < MaxRows /\ CallJobCreate(data)
    \/ CallJobFindAll(<<>>)
    \/ \E filters \in JobFilters : CallJobFindAll(<<filters>>)
    \/ CallCompanyFindAll(<<>>)
    \/ \E filters \in CompanyFilters : CallCompanyFindAll(<<filters>>)
    \/ \E query \in JobQueries : CallGetJobs(query)
    \/ Taken

SpecFind == Init /\ [][NextFind]_vars

(* Calls of Company.create that run at the same time: each awaits its
   duplicate check, then awaits its INSERT, and other calls run in between *)

\* Creator p calls Company.create(data) and gets the answer to its duplicate
\* check.
CheckDuplicate(p, data) ==
    /\ pending[p].at = "none"
    /\ \E dup \in DbQuery(Tables, DuplicateCheck(data).text, DuplicateCheck(data).args) :
           pending' = [pending EXCEPT ![p] =
               IF dup.error # ""
               THEN [at |-> "end", data |-> data, result |-> StoreError(dup.error)]
               ELSE IF FirstRow(dup.rows) # Undefined
               THEN [at |-> "end", data |-> data,
                     result |-> Throw("BadRequestError",
                                      <<"Duplicate company: ", Prop(data, "handle")>>)]
               ELSE [at |-> "insert", data |-> data, result |-> NoResult]]
    /\ UNCHANGED <<jobs, nextJobId, companies, call, queries, result, invoked>>

\* Creator p, whose check found no row, gets the answer to its INSERT.
Insert(p) ==
    /\ pending[p].at = "insert"
    /\ \E out \in DbQuery(Tables, CompanyInsert(pending[p].data).text,
                           CompanyInsert(pending[p].data).args) :
           /\ pending' = [pending EXCEPT ![p] =
                  [at |-> "end", data |-> @.data,
                   result |-> IF out.error # "" THEN StoreError(out.error)
                              ELSE Return(FirstRow(out.rows))]]
           /\ jobs' = out.db.jobs
           /\ nextJobId' = out.db.nextJobId
           /\ companies' = out.db.companies
    /\ UNCHANGED <<call, queries, result, invoked>>

\* The caller of creator p has its result.
Created(p) ==
    /\ pending[p].at = "end"
    /\ pending' = [pending EXCEPT ![p] = NotCreating]
    /\ UNCHANGED <<jobs, nextJobId, companies, call, queries, result, invoked>>

NextRace ==
    \/ \E p \in Creators, data \in ListedCompanies : CheckDuplicate(p, data)
    \/ \E p \in Creators : Insert(p)
    \/ \E p \in Creators : Created(p)
    \/ \E handle \in {Prop(data, "handle") : data \in ListedCompanies} :
           CallCompanyRemove(handle)
    \/ Taken

SpecRace == Init /\ [][NextRace]_vars

(* Requests *)

CallGetCompanies(query) ==
    Perform("GET /companies", <<query>>, GetCompanies(Tables, query))

CallPostJobs(user, body) ==
    Perform("POST /jobs", <<user, body>>, PostJobs(Tables, user, body))

CallPatchJob(user, id, body) ==
    Perform("PATCH /jobs/:id", <<user, id, body>>, PatchJob(Tables, user, id, body))

CallDeleteJob(user, id) ==
    Perform("DELETE /jobs/:id", <<user, id>>, DeleteJob(Tables, user, id))

CallPostCompanies(user, body) ==
    Perform("POST /companies", <<user, body>>, PostCompanies(Tables, user, body))

CallPatchCompany(user, handle, body) ==
    Perform("PATCH /companies/:handle", <<user, handle, body>>,
            PatchCompany(Tables, user, handle, body))

CallDeleteCompany(user, handle) ==
    Perform("DELETE /companies/:handle", <<user, handle>>,
            DeleteCompany(Tables, user, handle))

\* res.locals.user: nobody, a user who is no admin, a user whose token has no
\* isAdmin, an admin
Users ==
    {Undefined,
     <<<<"username", Str(<<"u">>)>>, <<"isAdmin", Bool(FALSE)>>>>,
     <<<<"username", Str(<<"u">>)>>, <<"iat", Num(1)>>>>,
     <<<<"username", Str(<<"a">>)>>, <<"isAdmin", Bool(TRUE)>>>>}

\* req.params.id: the text of an id, or of none
IdParams == {Str(<<Digits[i + 1]>>) : i \in 1..MaxJobs} \cup {Str(<<"x">>)}

JobBodies ==
    NewJobs \cup {<<<<"title", Num(1)>>>>}

JobPatches ==
    {<<>>, <<<<"title", Str(<<"b">>)>>>>, <<<<"salary", Str(<<"a">>)>>>>,
     <<<<"name", Str(<<"b">>)>>>>}

CompanyBodies ==
    NewCompanies \cup {<<<<"handle", Str(<<"c">>)>>>>}

CompanyPatches ==
    {<<>>, <<<<"numEmployees", Num(2)>>>>, <<<<"numEmployees", Str(<<"a">>)>>>>,
     <<<<"handle", Str(<<"d">>)>>>>}

CompanyQueries ==
    Records(<<"minEmployees", "maxEmployees", "nameLike">>,
            [k \in {"minEmployees", "maxEmployees", "nameLike"} |->
                CASE k = "minEmployees" ->
                        {Undefined, Str(<<"2">>), Str(<<"x">>), Str(<<>>)}
                  [] k = "maxEmployees" -> {Undefined, Str(<<"1">>), Str(<<"x">>)}
                  [] k = "nameLike" -> {Undefined, Str(<<"a">>)}])
    \cup {<<<<"name", Str(<<"a">>)>>>>,
          <<<<"minEmployees", Str(<<"1">>)>>, <<"sort", Str(<<"a">>)>>,
            <<"page", Str(<<"1">>)>>>>}

NextRoute ==
    \/ \E query \in JobQueries : CallGetJobs(query)
    \/ \E query \in CompanyQueries : CallGetCompanies(query)
    \/ \E user \in Users, body \in JobBodies :
           nextJobId <= MaxJobs /\ CallPostJobs(user, body)
    \/ \E user \in Users, id \in IdParams, body \in JobPatches :
           CallPatchJob(user, id, body)
    \/ \E user \in Users, id \in IdParams : CallDeleteJob(user, id)
    \/ \E user \in Users, body \in CompanyBodies : CallPostCompanies(user, body)
    \/ \E user \in Users, handle \in Handles, body \in CompanyPatches :
           CallPatchCompany(user, handle, body)
    \/ \E user \in Users, handle \in Handles : CallDeleteCompany(user, handle)
    \/ Taken

SpecRoute == Init /\ [][NextRoute]_vars

-----------------------------------------------------------------------------
(* Properties.  call, queries and result describe the last call made and    *)
(* not yet taken; the tables are the tables after it.                       *)

\* The SET clause text as fragments of five tokens with ", " between them.
FragmentCount(setCols) == (Len(setCols) + 1) \div 6

Fragment(setCols, k) == SubSeq(setCols, 6 * k - 5, 6 * k - 1)

WellJoined(setCols) ==
    /\ (Len(setCols) + 1) % 6 = 0
    /\ \A k \in 1..(FragmentCount(setCols) - 1) : setCols[6 * k] = ", "

\* fragment is "<column>"=$<i> with a column of key: the key itself or the
\* name that jsToSql gives it.
BelongsTo(fragment, key, jsToSql, i) ==
    /\ fragment[1] = "\"" /\ fragment[3] = "\"" /\ fragment[4] = "="
    /\ fragment[5] = Placeholder(i)
    /\ \/ fragment[2] = key
       \/ HasKey(jsToSql, key) /\ fragment[2] = GetKey(jsToSql, key)

\* out is the return value for the properties props taken in their order.
CompiledInOrder(props, jsToSql, out) ==
    /\ out.kind = "return"
    /\ WellJoined(out.value.setCols)
    /\ FragmentCount(out.value.setCols) = Len(props)
    /\ Len(out.value.values) = Len(props)
    /\ \A i \in DOMAIN props :
           /\ BelongsTo(Fragment(out.value.setCols, i), props[i][1], jsToSql, i)
           /\ out.value.values[i] = props[i][2]

\* p holds the properties of object o in the order of Object.keys: the
\* integer-like keys in ascending numeric order, then the others as inserted.
InKeyOrder(p, o) ==
    /\ Len(p) = Len(o)
    /\ Range(p) = Range(o)
    /\ \A i, j \in DOMAIN p : i < j =>
           \/ IsArrayIndex(p[i][1]) /\ ~IsArrayIndex(p[j][1])
           \/ /\ IsArrayIndex(p[i][1]) /\ IsArrayIndex(p[j][1])
              /\ DigitValue(p[i][1]) < DigitValue(p[j][1])
           \/ /\ ~IsArrayIndex(p[i][1]) /\ ~IsArrayIndex(p[j][1])
              /\ \E a, b \in DOMAIN o : a < b /\ o[a] = p[i] /\ o[b] = p[j]

EmptyUpdateThrew ==
    /\ call.op = "sqlForPartialUpdate" /\ Len(call.args[1]) = 0 =>
           result.kind = "throw" /\ result.error = "BadRequestError"
    /\ call.op \in {"Job.update", "Company.update"} /\ Len(call.args[2]) = 0 =>
           /\ result.kind = "throw" /\ result.error = "BadRequestError"
           /\ queries = <<>>

\* C2: sqlForPartialUpdate({}, jsToSql) throws BadRequestError whatever jsToSql
\* is; Job.update(id, {}) and Company.update(handle, {}) throw BadRequestError
\* without a db.query call and leave the tables as they were, whether or not
\* the row exists.
C2_EmptyUpdateRejected ==
    /\ []EmptyUpdateThrew
    /\ [][call'.op \in {"Job.update", "Company.update"}
          /\ Len(call'.args[2]) = 0
              => UNCHANGED <<jobs, nextJobId, companies>>]_vars

\* Job.update with no field was called on a job that exists.
C2_Witness ==
    /\ call.op = "Job.update"
    /\ Len(call.args[2]) = 0
    /\ \E r \in jobs : r.id = call.args[1]
    /\ result.kind = "throw"

\* C3: the quoted column of key k is jsToSql[k] when jsToSql has an entry for
\* k (the empty string too), and k when it has none.
C3_MappedNameUsed ==
    call.op = "sqlForPartialUpdate" /\ result.kind = "return" =>
        LET keys == ObjectKeys(call.args[1])
            jsToSql == call.args[2]
        IN  \A i \in DOMAIN keys :
                Fragment(result.value.setCols, i)[2] =
                    IF HasKey(jsToSql, keys[i]) THEN GetKey(jsToSql, keys[i])
                    ELSE keys[i]

\* C4: the statement of Job.update and Company.update for n >= 1 fields binds
\* the key to $(n+1), has n+1 arguments with the key last, and its SET clause
\* uses the indices 1..n, never the key's.
C4_KeyBoundLast ==
    call.op \in {"Job.update", "Company.update"} /\ Len(call.args[2]) > 0 =>
        /\ Len(queries) = 1
        /\ LET text == queries[1].text
               args == queries[1].args
               n == Len(call.args[2])
               w == IndexOf(text, " WHERE ")
           IN  /\ w > 0
               /\ text[w + 1] = (IF call.op = "Job.update" THEN "id" ELSE "handle")
               /\ text[w + 2] = "="
               /\ text[w + 3] = Placeholder(n + 1)
               /\ Len(args) = n + 1
               /\ args[n + 1] = call.args[1]
               /\ \A k \in 1..(w - 1) : text[k] # Placeholder(n + 1)
               /\ {i \in 1..(n + 1) : \E k \in 1..(w - 1) : text[k] = Placeholder(i)}
                      = 1..n

\* Job.update changed two fields of a job that exists.
C4_Witness ==
    /\ call.op = "Job.update"
    /\ Len(call.args[2]) = 2
    /\ result.kind = "return"
    /\ Len(queries) = 1
    /\ Len(queries[1].args) = 3

\* The object without its property k, and with only its properties of keys K.
Without(o, k) == SelectSeq(o, LAMBDA p : p[1] # k)

Restricted(o, K) == SelectSeq(o, LAMBDA p : p[1] \in K)

NoFilterGiven(argv, keys) ==
    Len(argv) = 0 \/ \A k \in keys : Prop(argv[1], k) = Undefined

\* The statement has no WHERE clause and no argument and ends with order.
Unfiltered(q, order) ==
    /\ " WHERE " \notin Range(q.text)
    /\ q.text[Len(q.text)] = order
    /\ q.args = <<>>

\* C5: findAll with no recognized filter (no argument, {} or every filter
\* undefined) issues one statement without WHERE clause and with no
\* parameter, ending with ORDER BY title (jobs) or ORDER BY name (companies),
\* and returns every row of the table exactly once.
C5_NoFilterListsAll ==
    /\ call.op = "Job.findAll" /\ NoFilterGiven(call.args, JobAllowedFilters) =>
           /\ Len(queries) = 1
           /\ Unfiltered(queries[1], " ORDER BY title")
           /\ result.kind = "return"
           /\ Len(result.value) = Cardinality(jobs)
           /\ Range(result.value) = {JobOut(r) : r \in jobs}
    /\ call.op = "Company.findAll" /\ NoFilterGiven(call.args, CompanyFilterKeys) =>
           /\ Len(queries) = 1
           /\ Unfiltered(queries[1], " ORDER BY name")
           /\ result.kind = "return"
           /\ Len(result.value) = Cardinality(companies)
           /\ Range(result.value) = {CompanyOut(r) : r \in companies}

\* Job.findAll was called with every filter undefined on a table of two rows
\* or more.
C5_Witness ==
    /\ call.op = "Job.findAll"
    /\ Len(call.args) = 1
    /\ Len(call.args[1]) = 3
    /\ NoFilterGiven(call.args, JobAllowedFilters)
    /\ Cardinality(jobs) >= 2
    /\ Len(result.value) = Cardinality(jobs)

\* The statement has the predicate column op $i with value v bound to $i.
HasPredicate(q, column, op, v) ==
    \E i \in 1..(Len(q.text) - 2) :
        /\ q.text[i] = column /\ q.text[i + 1] = op
        /\ IsPlaceholder(q.text[i + 2], q.args)
        /\ Bound(q.text[i + 2], q.args) = v

\* The statement compares column with operator op.
Compares(q, column, op) ==
    \E i \in 1..(Len(q.text) - 1) : q.text[i] = column /\ q.text[i + 1] = op

\* C6: a numeric filter is applied exactly when it is not undefined, 0
\* included: minSalary 0, minEmployees 0 and maxEmployees 0 each write their
\* predicate with 0 bound to its parameter, and the statement is not the one
\* built without the filter.
C6_ZeroApplied ==
    /\ call.op = "Job.findAll" /\ Len(call.args) = 1 =>
           LET filters == call.args[1]
               q == queries[1]
           IN  /\ Compares(q, "salary", ">=")
                      <=> Prop(filters, "minSalary") # Undefined
               /\ Prop(filters, "minSalary") = Num(0) =>
                      /\ HasPredicate(q, "salary", ">=", Num(0))
                      /\ q.text # JobFindAllQuery(<<Without(filters, "minSalary")>>).text
                      /\ \A r \in Range(result.value) : r.salary # Null
    /\ call.op = "Company.findAll" /\ Len(call.args) = 1 =>
           LET filters == call.args[1]
               q == queries[1]
           IN  /\ Compares(q, "num_employees", ">=")
                      <=> Prop(filters, "minEmployees") # Undefined
               /\ Compares(q, "num_employees", "<=")
                      <=> Prop(filters, "maxEmployees") # Undefined
               /\ Prop(filters, "minEmployees") = Num(0) =>
                      /\ HasPredicate(q, "num_employees", ">=", Num(0))
                      /\ q.text # CompanyFindAllQuery(
                                      <<Without(filters, "minEmployees")>>).text
                      /\ \A r \in Range(result.value) : r.numEmployees # Null
               /\ Prop(filters, "maxEmployees") = Num(0) =>
                      /\ HasPredicate(q, "num_employees", "<=", Num(0))
                      /\ q.text # CompanyFindAllQuery(
                                      <<Without(filters, "maxEmployees")>>).text
                      /\ \A r \in Range(result.value) : r.numEmployees # Null

\* Job.findAll({minSalary: 0}) left out a job that has no salary.
C6_Witness ==
    /\ call.op = "Job.findAll"
    /\ Len(call.args) = 1
    /\ call.args[1] = <<<<"minSalary", Num(0)>>>>
    /\ \E r \in jobs : r.salary = Null
    /\ result.kind = "return"
    /\ Len(result.value) > 0
    /\ Len(result.value) < Cardinality(jobs)

\* The rows that the statement q selects from a table: those that its WHERE
\* clause, the text between the select list and ORDER BY, holds of.
Selected(table, q) ==
    Matching(table, SubSeq(q.text, 2, Len(q.text) - 1), q.args)

\* The rows that Job.findAll(filters) and Company.findAll(filters) return
\* from the tables as they are.
JobRows(filters) ==
    {JobOut(r) : r \in Selected(jobs, JobFindAllQuery(<<filters>>))}

CompanyRows(filters) ==
    {CompanyOut(r) : r \in Selected(companies, CompanyFindAllQuery(<<filters>>))}

\* The keys of K that object o has.
KeysIn(o, K) == {k \in K : HasKey(o, k)}

HasPositiveEquity(r) == r.equity # Null /\ r.equity[2] > 0

\* C7: Job.findAll with hasEquity true returns jobs of positive equity only,
\* all of them when it is the only filter, and binds no parameter for it;
\* with hasEquity false or absent the statement and the rows are those of the
\* call without the key; GET /jobs lists with the equity predicate exactly
\* when the query string has hasEquity=true.
C7_HasEquity ==
    /\ call.op = "Job.findAll" /\ Len(call.args) = 1 =>
           LET filters == call.args[1]
               q == queries[1]
               rest == <<Without(filters, "hasEquity")>>
           IN  /\ Prop(filters, "hasEquity") = Bool(TRUE) =>
                      /\ EquityPredicate[1] \in Range(q.text)
                      /\ q.args = JobFindAllQuery(rest).args
                      /\ \A r \in Range(result.value) : HasPositiveEquity(r)
                      /\ Len(filters) = 1 =>
                             /\ Range(result.value) =
                                    {JobOut(r) : r \in {x \in jobs : HasPositiveEquity(x)}}
                             /\ Len(result.value) =
                                    Cardinality({x \in jobs : HasPositiveEquity(x)})
               /\ Prop(filters, "hasEquity") \in {Bool(FALSE), Undefined} =>
                      /\ EquityPredicate[1] \notin Range(q.text)
                      /\ q = JobFindAllQuery(rest)
                      /\ Range(result.value) = JobRows(rest[1])
    /\ call.op = "GET /jobs" /\ Len(queries) = 1 =>
           (EquityPredicate[1] \in Range(queries[1].text)
                <=> Prop(call.args[1], "hasEquity") = Str(<<"t", "r", "u", "e">>))

\* Job.findAll({hasEquity: true}) returned the one job of positive equity and
\* left out a job of equity 0 and a job of no equity.
C7_Witness ==
    /\ call.op = "Job.findAll"
    /\ Len(call.args) = 1
    /\ call.args[1] = <<<<"hasEquity", Bool(TRUE)>>>>
    /\ \E r \in jobs : r.equity = Num(0)
    /\ \E r \in jobs : r.equity = Null
    /\ result.kind = "return"
    /\ Len(result.value) = 1

AtLeast(v, b) == v # Null /\ v[2] >= b[2]

AtMost(v, b) == v # Null /\ v[2] <= b[2]

\* rows lists each element of set S once.
ListsExactly(rows, S) == Range(rows) = S /\ Len(rows) = Cardinality(S)

\* C8: findAll with the one filter minSalary b returns exactly the jobs with
\* salary >= b; with minEmployees b exactly the companies with numEmployees
\* >= b; with maxEmployees b exactly those with numEmployees <= b.
C8_Bounds ==
    /\ call.op = "Job.findAll" /\ Len(call.args) = 1 /\ Len(call.args[1]) = 1
       /\ Prop(call.args[1], "minSalary")[1] = "number" =>
           /\ result.kind = "return"
           /\ ListsExactly(result.value,
                  {JobOut(r) : r \in {x \in jobs :
                       AtLeast(x.salary, Prop(call.args[1], "minSalary"))}})
    /\ call.op = "Company.findAll" /\ Len(call.args) = 1 /\ Len(call.args[1]) = 1
       /\ Prop(call.args[1], "minEmployees")[1] = "number" =>
           /\ result.kind = "return"
           /\ ListsExactly(result.value,
                  {CompanyOut(r) : r \in {x \in companies :
                       AtLeast(x.num_employees, Prop(call.args[1], "minEmployees"))}})
    /\ call.op = "Company.findAll" /\ Len(call.args) = 1 /\ Len(call.args[1]) = 1
       /\ Prop(call.args[1], "maxEmployees")[1] = "number" =>
           /\ result.kind = "return"
           /\ ListsExactly(result.value,
                  {CompanyOut(r) : r \in {x \in companies :
                       AtMost(x.num_employees, Prop(call.args[1], "maxEmployees"))}})

\* Job.findAll({minSalary: 2}) returned the job of salary 2 and left out a job
\* of salary 1 and a job of no salary.
C8_Witness ==
    /\ call.op = "Job.findAll"
    /\ Len(call.args) = 1
    /\ call.args[1] = <<<<"minSalary", Num(2)>>>>
    /\ \E r \in jobs : r.salary = Num(1)
    /\ \E r \in jobs : r.salary = Null
    /\ result.kind = "return"
    /\ Len(result.value) = 1
    /\ result.value[1].salary = Num(2)

\* C9: the rows of findAll with the filters f1 and f2 merged, f1 and f2 over
\* disjoint recognized keys, are the rows that findAll(f1) and findAll(f2)
\* both return, for jobs and for companies.
C9_FiltersIntersect ==
    /\ call.op = "Job.findAll" /\ Len(call.args) = 1 =>
           /\ result.kind = "return"
           /\ Range(result.value) = JobRows(call.args[1])
           /\ \A K \in SUBSET KeysIn(call.args[1], JobAllowedFilters) :
                  Range(result.value) =
                      JobRows(Restricted(call.args[1], K))
                          \cap JobRows(Restricted(call.args[1], JobAllowedFilters \ K))
    /\ call.op = "Company.findAll" /\ Len(call.args) = 1 =>
           /\ result.kind = "return"
           /\ Range(result.value) = CompanyRows(call.args[1])
           /\ \A K \in SUBSET KeysIn(call.args[1], CompanyFilterKeys) :
                  Range(result.value) =
                      CompanyRows(Restricted(call.args[1], K))
                          \cap CompanyRows(Restricted(call.args[1], CompanyFilterKeys \ K))

\* Job.findAll({minSalary: 0, title: "a"}) returned one job where each of the
\* two filters alone returns two.
C9_Witness ==
    /\ call.op = "Job.findAll"
    /\ Len(call.args) = 1
    /\ call.args[1] = <<<<"minSalary", Num(0)>>, <<"title", Str(<<"a">>)>>>>
    /\ result.kind = "return"
    /\ Len(result.value) = 1
    /\ Cardinality(JobRows(Restricted(call.args[1], {"minSalary"}))) = 2
    /\ Cardinality(JobRows(Restricted(call.args[1], {"title"}))) = 2

IsText(v) == v[1] = "string" /\ Len(v[2]) > 0

\* C10: findAll with the one filter title s (name s for companies), s not
\* empty, binds '%' + lower-cased s + '%' and returns exactly the rows whose
\* lower-cased title (name) contains lower-cased s as a contiguous substring.
C10_SubstringMatch ==
    /\ call.op = "Job.findAll" /\ Len(call.args) = 1 /\ Len(call.args[1]) = 1
       /\ IsText(Prop(call.args[1], "title")) =>
           LET s == ToLowerCase(Prop(call.args[1], "title")[2])
           IN  /\ queries[1].args = <<Str(<<"%">> \o s \o <<"%">>)>>
               /\ HasPredicate(queries[1], "LOWER(title)", "LIKE",
                               Str(<<"%">> \o s \o <<"%">>))
               /\ result.kind = "return"
               /\ ListsExactly(result.value,
                      {JobOut(r) : r \in {x \in jobs :
                           Contains(ToLowerCase(x.title[2]), s)}})
    /\ call.op = "Company.findAll" /\ Len(call.args) = 1 /\ Len(call.args[1]) = 1
       /\ IsText(Prop(call.args[1], "name")) =>
           LET s == ToLowerCase(Prop(call.args[1], "name")[2])
           IN  /\ queries[1].args = <<Str(<<"%">> \o s \o <<"%">>)>>
               /\ HasPredicate(queries[1], "LOWER(name)", "LIKE",
                               Str(<<"%">> \o s \o <<"%">>))
               /\ result.kind = "return"
               /\ ListsExactly(result.value,
                      {CompanyOut(r) : r \in {x \in companies :
                           Contains(ToLowerCase(x.name[2]), s)}})

(* Requests: what reaches the models *)

\* Every call of the model's method op made by the handler had a first
\* argument with keys of K only.
FilterKeysWithin(op, K) ==
    \A i \in DOMAIN invoked :
        invoked[i].op = op => Range(ObjectKeys(invoked[i].args[1])) \subseteq K

\* The first key of the request's query, in the order of Object.keys, that is
\* not in K.
FirstKeyOutside(query, K) ==
    ObjectKeys(query)[CHOOSE i \in DOMAIN ObjectKeys(query) :
                         /\ ObjectKeys(query)[i] \notin K
                         /\ \A j \in 1..(i - 1) : ObjectKeys(query)[j] \in K]

\* The request was answered 'Invalid filter: <key>' for its first query key
\* outside K, and no method of a model was called.
RejectedOutside(K) ==
    /\ invoked = <<>>
    /\ queries = <<>>
    /\ result = Throw("BadRequestError",
                      <<"Invalid filter: ", FirstKeyOutside(call.args[1], K)>>)

\* The request to route asked with a query key outside K.
AskedOutside(route, K) ==
    /\ call.op = route
    /\ ~(Range(ObjectKeys(call.args[1])) \subseteq K)

\* C11 as stated: a request to GET /companies with a query key outside
\* {minEmployees, maxEmployees, name}, or to GET /jobs with one outside
\* {title, minSalary, hasEquity}, is answered BadRequestError
\* 'Invalid filter: <key>' and findAll is not called.
C11_QueryKeysAsFilterKeys ==
    /\ AskedOutside("GET /companies", {"minEmployees", "maxEmployees", "name"})
           => RejectedOutside({"minEmployees", "maxEmployees", "name"})
    /\ AskedOutside("GET /jobs", JobAllowedFilters)
           => RejectedOutside(JobAllowedFilters)

\* C11: Company.findAll is invoked by GET /companies only with filter keys
\* among minEmployees, maxEmployees, name, and Job.findAll by GET /jobs only
\* with keys among title, minSalary, hasEquity; a request to GET /companies
\* with a query key outside {minEmployees, maxEmployees, nameLike}, or to
\* GET /jobs with one outside {title, minSalary, hasEquity}, is answered
\* BadRequestError 'Invalid filter: <key>' and no model is called.
C11_OnlyRecognizedFilters ==
    /\ FilterKeysWithin("Company.findAll", {"minEmployees", "maxEmployees", "name"})
    /\ FilterKeysWithin("Job.findAll", {"title", "minSalary", "hasEquity"})
    /\ AskedOutside("GET /companies", {"minEmployees", "maxEmployees", "nameLike"})
           => RejectedOutside({"minEmployees", "maxEmployees", "nameLike"})
    /\ AskedOutside("GET /jobs", {"title", "minSalary", "hasEquity"})
           => RejectedOutside({"title", "minSalary", "hasEquity"})

\* GET /companies?minEmployees=1&sort=a&page=1 was answered
\* 'Invalid filter: sort'.
C11_Witness ==
    /\ call.op = "GET /companies"
    /\ ObjectKeys(call.args[1]) = <<"minEmployees", "sort", "page">>
    /\ result = Throw("BadRequestError", <<"Invalid filter: ", "sort">>)
    /\ invoked = <<>>

\* a <= b, both numbers
NotGreater(a, b) == a[1] = "number" /\ b[1] = "number" /\ a[2] <= b[2]

\* C12: whenever GET /companies calls Company.findAll with both minEmployees
\* and maxEmployees in the filter, minEmployees <= maxEmployees; a request
\* with both supplied and minEmployees above maxEmployees is answered
\* BadRequestError and Company.findAll is not called.
C12_MinNotAboveMax ==
    /\ \A i \in DOMAIN invoked :
           /\ invoked[i].op = "Company.findAll"
           /\ HasKey(invoked[i].args[1], "minEmployees")
           /\ HasKey(invoked[i].args[1], "maxEmployees")
           => NotGreater(Prop(invoked[i].args[1], "minEmployees"),
                         Prop(invoked[i].args[1], "maxEmployees"))
    /\ /\ call.op = "GET /companies"
       /\ HasKey(call.args[1], "minEmployees")
       /\ HasKey(call.args[1], "maxEmployees")
       /\ GreaterThan(ToNumber(Prop(call.args[1], "minEmployees")),
                      ToNumber(Prop(call.args[1], "maxEmployees")))
       => /\ result.kind = "throw"
          /\ result.error = "BadRequestError"
          /\ invoked = <<>>

\* The text writes an integer in decimal digits.
IsIntegerText(v) ==
    /\ v[1] = "string"
    /\ \/ Len(v[2]) > 0 /\ \A i \in DOMAIN v[2] : v[2][i] \in Range(Digits)
       \/ /\ Len(v[2]) > 1 /\ v[2][1] = "-"
          /\ \A i \in 2..Len(v[2]) : v[2][i] \in Range(Digits)

\* C13: every filter object a handler passes to Company.findAll or to
\* Job.findAll has an integer for minEmployees, maxEmployees and minSalary
\* and a boolean for hasEquity, when they are present; a request whose
\* numeric filter text is no integer reaches neither.
C13_TypedFilters ==
    /\ \A i \in DOMAIN invoked :
           invoked[i].op \in {"Company.findAll", "Job.findAll"} =>
               /\ \A k \in {"minEmployees", "maxEmployees", "minSalary"} :
                      HasKey(invoked[i].args[1], k)
                          => Prop(invoked[i].args[1], k)[1] = "number"
               /\ HasKey(invoked[i].args[1], "hasEquity")
                      => Prop(invoked[i].args[1], "hasEquity")[1] = "boolean"
    /\ /\ call.op \in {"GET /companies", "GET /jobs"}
       /\ \E k \in {"minEmployees", "maxEmployees", "minSalary"} :
              /\ HasKey(call.args[1], k)
              /\ ~IsIntegerText(Prop(call.args[1], k))
       => invoked = <<>>

(* Requests that change rows *)

ChangingRoutes ==
    {"POST /jobs", "PATCH /jobs/:id", "DELETE /jobs/:id",
     "POST /companies", "PATCH /companies/:handle", "DELETE /companies/:handle"}

ChangingMethods ==
    {"Job.create", "Job.update", "Job.remove",
     "Company.create", "Company.update", "Company.remove"}

\* res.locals.user exists and its isAdmin is the boolean true.
AdminAsked(c) ==
    /\ c.args[1] # Undefined
    /\ HasKey(c.args[1], "isAdmin")
    /\ GetKey(c.args[1], "isAdmin") = Bool(TRUE)

\* The answer to a request of somebody who is no admin: UnauthorizedError,
\* with no method of a model called and no statement sent.
Refused ==
    /\ result.kind = "throw"
    /\ result.error = "UnauthorizedError"
    /\ invoked = <<>>
    /\ queries = <<>>

JobExists(rows, id) == \E r \in rows : r.id = id

CompanyExists(rows, handle) == \E r \in rows : r.handle = handle

\* The call reads, updates with some data, or removes one row.
ByKey(c, table) ==
    \/ c.op \in {table \o ".get", table \o ".remove"}
    \/ c.op = table \o ".update" /\ Len(c.args[2]) > 0

C16_OneOrder ==
    /\ call.op = "Job.findAll" /\ result.kind = "return"
           => \A o \in JobFindAll(Tables, call.args) : o.result = result
    /\ call.op = "Company.findAll" /\ result.kind = "return"
           => \A o \in CompanyFindAll(Tables, call.args) : o.result = result

(* The statement of a listing *)

\* The predicates of the statement, in the order they are written.
PredicatesOf(q) == WherePredicates(SubSeq(q.text, 2, Len(q.text) - 1))

\* The texts a positional parameter of a listing can have.
PositionalTexts == {Placeholder(n) : n \in 1..3}

\* The predicates that have a parameter, in the order they are written.
ValuePredicates(q) ==
    SelectSeq(PredicatesOf(q), LAMBDA p : p[3] \in PositionalTexts)

\* The place of a predicate in the documented order.
PredicateRank(p) ==
    CASE p[1] = "num_employees" /\ p[2] = ">=" -> 1
      [] p[1] = "num_employees" /\ p[2] = "<=" -> 2
      [] p[1] = "LOWER(name)" /\ p[2] = "LIKE" -> 3
      [] p[1] = "salary" /\ p[2] = ">=" -> 1
      [] p[1] = "LOWER(title)" /\ p[2] = "LIKE" -> 2
      [] p[1] = "equity::float" /\ p[2] = ">" -> 3
      [] OTHER -> 0

\* The value that the filters give to the parameter of predicate p.
OwnValue(p, filters) ==
    CASE p[1] = "num_employees" /\ p[2] = ">=" -> Prop(filters, "minEmployees")
      [] p[1] = "num_employees" /\ p[2] = "<=" -> Prop(filters, "maxEmployees")
      [] p[1] = "salary" -> Prop(filters, "minSalary")
      [] p[1] = "LOWER(name)" ->
            Str(<<"%">> \o ToLowerCase(Prop(filters, "name")[2]) \o <<"%">>)
      [] p[1] = "LOWER(title)" ->
            Str(<<"%">> \o ToLowerCase(Prop(filters, "title")[2]) \o <<"%">>)

\* C17: in the statement of Job.findAll and of Company.findAll the predicates
\* stand in the order minSalary, title, hasEquity (minEmployees,
\* maxEmployees, name); the placeholders written are exactly $1..$k, k the
\* number of parameters; the j-th predicate with a parameter writes $j, and
\* parameter j is the value of that predicate's own filter; the predicate of
\* hasEquity has no parameter.
C17_Placeholders ==
    call.op \in {"Job.findAll", "Company.findAll"} =>
        LET q == queries[1]
            filters == IF Len(call.args) = 0 THEN <<>> ELSE call.args[1]
            preds == PredicatesOf(q)
            valued == ValuePredicates(q)
        IN  /\ Len(queries) = 1
            /\ \A i \in DOMAIN preds : PredicateRank(preds[i]) > 0
            /\ \A i, j \in DOMAIN preds :
                   i < j => PredicateRank(preds[i]) < PredicateRank(preds[j])
            /\ Range(q.text) \cap PositionalTexts
                   = {Placeholder(j) : j \in 1..Len(q.args)}
            /\ Len(valued) = Len(q.args)
            /\ \A j \in DOMAIN valued :
                   /\ valued[j][3] = Placeholder(j)
                   /\ q.args[j] = OwnValue(valued[j], filters)
            /\ \A i \in DOMAIN preds :
                   preds[i][1] = "equity::float" => preds[i][3] = "0"

\* Job.findAll({ minSalary: 2, title: 'a', hasEquity: true }) wrote three
\* predicates and two parameters.
C17_Witness ==
    /\ call.op = "Job.findAll"
    /\ Len(call.args) = 1
    /\ call.args[1] = <<<<"minSalary", Num(2)>>, <<"title", Str(<<"a">>)>>,
                        <<"hasEquity", Bool(TRUE)>>>>
    /\ Len(PredicatesOf(queries[1])) = 3
    /\ queries[1].args = <<Num(2), Str(<<"%", "a", "%">>)>>

\* The number of LIKE predicates of the statement.
LikeCount(q) ==
    Cardinality({i \in DOMAIN PredicatesOf(q) : PredicatesOf(q)[i][2] = "LIKE"})

\* The number of parameters of the statement bound to a LIKE predicate.
LikeValues(q) ==
    Cardinality({i \in DOMAIN PredicatesOf(q) :
                    /\ PredicatesOf(q)[i][2] = "LIKE"
                    /\ IsPlaceholder(PredicatesOf(q)[i][3], q.args)})

\* C18: a title given to Job.findAll, and a name given to Company.findAll,
\* with any value but undefined, the empty string included, writes exactly
\* one LIKE predicate with exactly one parameter.
C18_SubstringFilterKept ==
    /\ call.op = "Job.findAll" /\ Len(call.args) = 1
       /\ Prop(call.args[1], "title") # Undefined
       => LikeCount(queries[1]) = 1 /\ LikeValues(queries[1]) = 1
    /\ call.op = "Company.findAll" /\ Len(call.args) = 1
       /\ Prop(call.args[1], "name") # Undefined
       => LikeCount(queries[1]) = 1 /\ LikeValues(queries[1]) = 1

(* Calls of Company.create that run at the same time *)

\* C19: a call of Company.create has ended only by returning its company or
\* with BadRequestError 'Duplicate company: <handle>', never with another
\* error, however the calls ran in between each other; and no two companies
\* of the table have the same handle.
C19_DuplicateRejected ==
    /\ \A p \in Creators :
           pending[p].at = "end" =>
               \/ pending[p].result.kind = "return"
               \/ pending[p].result =
                      Throw("BadRequestError",
                            <<"Duplicate company: ", Prop(pending[p].data, "handle")>>)
    /\ \A c, d \in companies : c.handle = d.handle => c = d

=============================================================================
